---- MODULE Spec2Model ----
(***************************************************************************)
(* State-machine model of the two single-file SDL engines:                 *)
(*   src/sdl_game_engine.cpp    the demo game  (Engine, World, onUpdate)   *)
(*   src/sdl_game_engine_2.cpp  the ImGui scene editor (Editor2, main)     *)
(*                                                                         *)
(* Conventions of the model                                                *)
(*  - float coordinates are held as whole pixels; every input the model    *)
(*    offers (pointer positions, Inspector values, elapsed times) is       *)
(*    chosen so that the products the code forms are whole numbers.  The   *)
(*    one irrational quantity, the chase displacement (dx/dist)*speed, is  *)
(*    rounded toward zero.                                                 *)
(*  - elapsed time dt is carried in milliseconds (dt = ms/1000.0f).        *)
(*  - a shared_ptr<Entity> is a pair (gen, id): gen tells the World        *)
(*    instance the object was made by (World ids restart at 1 when         *)
(*    `world = World()` replaces the store), id = 0 is nullptr.            *)
(*  - the iteration order of unordered_map is unspecified: iterOrder is    *)
(*    fixed at start-up to one of the orders a build can produce.          *)
(*  - undefined behaviour (integer modulo by zero, dereferencing nullptr)  *)
(*    and an uncaught exception end the process: crashed = TRUE; a modulo  *)
(*    by zero may also yield the dividend (targets whose division does     *)
(*    not trap).                                                           *)
(*  - an image handle is a positive number (0 is nullptr); whether a path  *)
(*    can be decoded is decided by the environment (files) and does not    *)
(*    change during a run.                                                 *)
(*  - the renderer is its draw transform (viewport, scale) and the draw    *)
(*    calls of the scene drawn last.                                       *)
(*  - Entity, World, TextureManager and the renderer's draw transform are  *)
(*    also specified as units (SpecEntity, SpecWorld, SpecTextures,        *)
(*    SpecRenderer), driven by any caller; so are the Viewport panel       *)
(*    (SpecViewport) and the functions aabbIntersect and chase             *)
(*    (SpecGeometry).                                                      *)
(*  - SpecLoop is the frame loop of both programs with the quit events,    *)
(*    under fair scheduling; SpecGamePlay is the demo game from its start  *)
(*    and from a state later in play.                                      *)
(***************************************************************************)
EXTENDS Integers, Sequences, FiniteSets, TLC

VARIABLES
    variant,    \* which program or unit runs: "editor", "game", "world", "entity",
                \* "textures", "renderer", "viewport", "geometry"
    cfg,        \* EngineConfig: [width, height]
    world,      \* World: [gen, next, ents], ents : id -> Entity
    selected,   \* Editor2::selected, a shared_ptr<Entity>: [gen, id], id = 0 is nullptr
    playing,    \* Editor2::playing
    score,      \* Editor2::score / main's score
    keys,       \* InputState::keys of the demo game: scancode -> bool (partial)
    running,    \* the frame loop's running flag
    crashed,    \* the process has been ended by UB or an uncaught exception
    iterOrder,  \* order in which unordered_map iterates: "ascending" | "descending"
    lastOp,     \* the handler that ran last (position in the frame loop)
    obs,        \* what the last update step did: roles found, checks that fired
    frames,     \* number of update steps executed so far
    issued,     \* identifiers returned by World::createEntity so far, in order
    files,      \* the asset paths the SDL decoders can open (the environment)
    texman,     \* TextureManager: [ren, cache : path -> handle, made]
    fontman,    \* FontManager::cache : key -> handle
    audioman,   \* AudioManager: [sfx, mus], each path -> handle
    released,   \* <<kind, key>> -> number of times that cached handle was released
    renderer,   \* SDL_Renderer: draw transform [viewport, sx, sy] and the draw
                \* calls of the scene drawn last
    loads,      \* the TextureManager::load calls made so far (unit specification)
    probe       \* arguments and results of the function a unit specification applies

\* the asset managers and the environment they read, with the units' records
assetVars == <<files, fontman, audioman, released, loads, probe>>

\* what drawing the scene touches
drawVars == <<texman, renderer>>

\* no function has been applied yet / the specification is not a function unit
NoProbe == [op |-> "none"]

vars == <<variant, cfg, world, selected, playing, score, keys, running, crashed,
          iterOrder, lastOp, obs, frames, issued, files, texman, fontman, audioman,
          released, renderer, loads, probe>>

-----------------------------------------------------------------------------
(* Bounds of the model *)

\* number of update steps (frames) a behaviour of the editor / the game runs
MaxFrames == 4
\* number of createEntity calls in the World unit specification
MaxCreates == 6
\* number of addComponent calls in the Entity unit specification
MaxComponents == 5
\* number of load calls in the TextureManager unit specification
MaxLoads == 4

-----------------------------------------------------------------------------
(* Program constants *)

EditorWidth == 1280
EditorHeight == 720
GameWidth == 800
GameHeight == 600
INVALID_ENTITY == 0
\* the "none" image handle: SDL_Texture* nullptr
NullTex == 0
\* the demo scene's sizes
PlayerSize == 64
TargetSize == 32
EnemySize == 48
\* half of the player's size, subtracted when the player is put at the centre
PlayerHalf == 32
\* spawnDemoScene / main of the game take the enemy's position modulo width - 64
GameEnemyMargin == 64
\* role thresholds of Editor2::update
PlayerMinW == 48
EnemyMinW == 40
\* Add Entity of uiHierarchy
NewEntityPos == 50
NewEntitySize == 32
\* speeds: editor key handler (px/s), editor chase (px/s), game keys (px/frame)
KeySpeed == 200
ChaseSpeed == 100
GameSpeed == 4

-----------------------------------------------------------------------------
(* Input sets: the values the environment supplies *)

\* values returned by rand() in the editor; 3072 puts the demo target at
\* (576, 320) and the demo enemy at (608, 384), both touching the player
EditorRandVals == {0, 3072}
\* the rand() results of one spawnDemoScene call (four draws) and of one
\* pickup (two draws)
SpawnRands == {<<r, r, r, r>> : r \in EditorRandVals}
PickupRands == {<<r, r>> : r \in EditorRandVals}
\* values returned by rand() in the game; 19560 puts the target at (360, 248)
\* and the enemy at (424, 264), both over the player
GameRandVals == {0, 19560}
\* the rand() results of main's scene set-up (target x, y, enemy x, y) and of one
\* onUpdate call (pickup: target x, y, enemy x, y; reset: enemy x, y)
GameInitRands == {<<a, a, b, b>> : a, b \in GameRandVals}
GameUpdateRands == {<<a, a, b, b, c, c>> : a, b, c \in GameRandVals}
\* elapsed milliseconds between two frames
DtSet == {1000}
\* the Viewport panel's item rectangle on screen (p and s of uiViewport)
ViewRects == {[x |-> 320, y |-> 180, w |-> 640, h |-> 360]}
\* pointer positions of a viewport drag, in screen coordinates
MousePts == {<<320, 180>>, <<640, 360>>}
\* edits made in the Inspector: the field and the value it is given
InspEdits == {<<"x", -16>>, <<"y", -16>>, <<"w", 44>>, <<"h", 800>>}
\* keys the editor's event pump receives
EditorKeys == {"d"}
\* scancodes the game's event pump receives
GameKeys == {"W", "S", "A", "D"}

-----------------------------------------------------------------------------
(* Arithmetic helpers *)

Abs(n) == IF n < 0 THEN -n ELSE n

Max(S) == CHOOSE m \in S : \A n \in S : n <= m

Min(S) == CHOOSE m \in S : \A n \in S : m <= n

\* C++ integer / float-to-int division: rounds toward zero
TruncDiv(a, b) ==
    IF (a >= 0) = (b > 0) THEN Abs(a) \div Abs(b) ELSE -(Abs(a) \div Abs(b))

\* C++ a % b for b # 0: the remainder has the sign of the dividend
CRem(a, b) == a - b * TruncDiv(a, b)

RECURSIVE ISqrtBetween(_, _, _)
ISqrtBetween(n, lo, hi) ==
    IF lo >= hi THEN lo
    ELSE LET mid == (lo + hi + 1) \div 2
         IN IF mid * mid <= n THEN ISqrtBetween(n, mid, hi)
                              ELSE ISqrtBetween(n, lo, mid - 1)

\* sqrtf, rounded down to a whole number
ISqrt(n) == ISqrtBetween(n, 0, 46340)

\* outcome marker of an operation that ended the process
Trap == -1

\* rand() % m.  m = 0 is undefined behaviour: the division traps, or (where it
\* does not trap) the quotient is 0 and the remainder is the dividend.
RandMod(r, m) == IF m = 0 THEN {Trap, r} ELSE {CRem(r, m)}

-----------------------------------------------------------------------------
(* Tiny ECS: components, Entity, World *)

Transform(owner, x, y, w, h) ==
    [kind |-> "Transform", owner |-> owner, x |-> x, y |-> y, w |-> w, h |-> h]

\* a Sprite as add<Sprite>() makes it: tex = nullptr
Sprite(owner) == [kind |-> "Sprite", owner |-> owner, tex |-> NullTex]

Velocity(owner, vx, vy) == [kind |-> "Velocity", owner |-> owner, vx |-> vx, vy |-> vy]

\* positions in e.comps of the components of one kind
KindIdx(e, kind) == {i \in 1..Len(e.comps) : e.comps[i].kind = kind}

\* Entity::get<T>() # nullptr
has(e, kind) == KindIdx(e, kind) # {}

\* Entity::get<T>(): the first component of that kind (callers test has first)
get(e, kind) == e.comps[Min(KindIdx(e, kind))]

\* a write through the pointer Entity::get<T>() returned
put(e, kind, c) == [e EXCEPT !.comps[Min(KindIdx(e, kind))] = c]

\* Entity::add<T>() / Entity::addComponent<T>(): push_back, no check for the kind
add(e, c) == [e EXCEPT !.comps = Append(@, c)]

\* unordered_map::operator[]= : insert or overwrite
MapPut(m, k, v) == [i \in DOMAIN m \cup {k} |-> IF i = k THEN v ELSE m[i]]

\* unordered_map::erase(key): nothing happens when the key is absent
MapErase(m, k) == [i \in DOMAIN m \ {k} |-> m[i]]

\* World(): the empty store made by World instance number g
NewWorld(g) == [gen |-> g, next |-> 1, ents |-> <<>>]

newId_lowestFree(w) == IF DOMAIN w.ents = {} THEN 1 ELSE Max(DOMAIN w.ents) + 1

\* the identifier World::create() / World::createEntity() hands out: next++
\* (EntityId is unsigned int; the model stays far below 2^32)
newId(w) == w.next

\* the entity World::create() / World::createEntity() is about to return
Fresh(w) == [id |-> newId(w), gen |-> w.gen, comps |-> <<>>]

\* World::create() / World::createEntity(): e->id = next++; ents[e->id] = e
create(w) == [w EXCEPT !.next = newId(w) + 1, !.ents = MapPut(@, newId(w), Fresh(w))]

destroyEntity_clear(w, id) == [w EXCEPT !.ents = <<>>]

\* World::destroyEntity(id)
destroyEntity(w, id) == [w EXCEPT !.ents = MapErase(@, id)]

\* e->add<T>(...) on an entity held by the store
attach(w, id, c) == [w EXCEPT !.ents[id] = add(@, c)]

\* the identifiers of the store in the order unordered_map iterates them
IdsInOrder(w) ==
    LET S == DOMAIN w.ents
        n == Cardinality(S)
        asc == [i \in 1..n |-> CHOOSE x \in S : Cardinality({y \in S : y < x}) = i - 1]
    IN IF iterOrder = "ascending" THEN asc ELSE [i \in 1..n |-> asc[n + 1 - i]]

\* World::all(): a snapshot of the entities in iteration order
all(w) == LET ids == IdsInOrder(w) IN [i \in 1..Len(ids) |-> w.ents[ids[i]]]

\* a shared_ptr<Entity>
NullPtr == [gen |-> 0, id |-> INVALID_ENTITY]

PtrTo(e) == [gen |-> e.gen, id |-> e.id]

\* the object a shared_ptr<Entity> points to is (still) held by the store
InWorld(p, w) == p.id \in DOMAIN w.ents /\ w.ents[p.id].gen = p.gen

\* aabbIntersect(a, b)
aabbIntersect_oneSided(a, b) ==
    ~(a.x + a.w < b.x \/ a.y + a.h < b.y \/ a.y > b.y + b.h)

aabbIntersect_strict(a, b) ==
    ~(a.x + a.w <= b.x \/ a.x >= b.x + b.w \/ a.y + a.h <= b.y \/ a.y >= b.y + b.h)

aabbIntersect(a, b) ==
    ~(a.x + a.w < b.x \/ a.x > b.x + b.w \/ a.y + a.h < b.y \/ a.y > b.y + b.h)

clamp_none(t) == t

\* the bounds clamp of Editor2::update and physicsSystem, in the code's order
clamp(t) ==
    LET x1 == IF t.x < 0 THEN 0 ELSE t.x
        y1 == IF t.y < 0 THEN 0 ELSE t.y
        x2 == IF x1 + t.w > cfg.width THEN cfg.width - t.w ELSE x1
        y2 == IF y1 + t.h > cfg.height THEN cfg.height - t.h ELSE y1
    IN [t EXCEPT !.x = x2, !.y = y2]

chaseStep_unnormalised(d2, dist2, num, den) == TruncDiv(d2 * num, 2 * den)

\* (dx/dist)*speed for one axis; d2, dist2 are twice the centre distance
\* (centres are x + w/2), num/den is the speed; rounded toward zero
chaseStep(d2, dist2, num, den) == TruncDiv(d2 * num, dist2 * den)

\* twice the vector from the centre of e to the centre of p
centreDelta2(p, e) ==
    [dx |-> (2 * p.x + p.w) - (2 * e.x + e.w), dy |-> (2 * p.y + p.h) - (2 * e.y + e.h)]

\* the enemy's Transform after the chase: et += (d/dist)*speed when dist > 0.001
chase(pt, et, num, den) ==
    LET d == centreDelta2(pt, et)
        dist2 == ISqrt(d.dx * d.dx + d.dy * d.dy)
    IN IF dist2 > 0
       THEN [et EXCEPT !.x = @ + chaseStep(d.dx, dist2, num, den),
                       !.y = @ + chaseStep(d.dy, dist2, num, den)]
       ELSE et

-----------------------------------------------------------------------------
(* Resource managers *)

\* the images Editor2::loadDemoAssets / main of the game ask for
DemoImages == <<"player.png", "target.png", "enemy.png", "bg.png">>

\* TextureManager(r): ren tells whether the renderer pointer is non-null
NewTexman(ren) == [ren |-> ren, cache |-> <<>>, made |-> 0]

\* TextureManager::load(path): the handle returned, the manager afterwards and
\* whether IMG_Load was invoked.  A failed decode caches nothing.
load(tm, path) ==
    IF ~tm.ren THEN [tex |-> NullTex, tm |-> tm, decoded |-> FALSE]
    ELSE IF path \in DOMAIN tm.cache
         THEN [tex |-> tm.cache[path], tm |-> tm, decoded |-> FALSE]
    ELSE IF path \notin files
         THEN [tex |-> NullTex, tm |-> tm, decoded |-> TRUE]
    ELSE [tex |-> tm.made + 1,
          tm |-> [tm EXCEPT !.cache = MapPut(@, path, tm.made + 1), !.made = @ + 1],
          decoded |-> TRUE]

\* the manager after load has been called for each path of a list, in order
RECURSIVE loadAll(_, _)
loadAll(tm, paths) ==
    IF paths = <<>> THEN tm ELSE loadAll(load(tm, Head(paths)).tm, Tail(paths))

\* FontManager::load / AudioManager::loadSfx / loadMusic: the cache afterwards
\* (the handle of a cached asset is identified by its key)
cacheLoad(cache, key, path) ==
    IF key \in DOMAIN cache \/ path \notin files THEN cache ELSE MapPut(cache, key, key)

\* the handles a cache of the given kind holds
cachedHandles(kind, cache) == {<<kind, k>> : k \in DOMAIN cache}

\* every handle the managers hold, none of them released yet
tracked(tm, fm, am) ==
    [h \in cachedHandles("texture", tm.cache) \cup cachedHandles("font", fm)
           \cup cachedHandles("sfx", am.sfx) \cup cachedHandles("music", am.mus) |-> 0]

\* one more release (SDL_DestroyTexture, TTF_CloseFont, Mix_FreeChunk,
\* Mix_FreeMusic) of every handle of a cache of the given kind
releaseAll(rel, kind, cache) ==
    LET K == cachedHandles(kind, cache)
    IN [h \in DOMAIN rel \cup K |->
          (IF h \in DOMAIN rel THEN rel[h] ELSE 0) + (IF h \in K THEN 1 ELSE 0)]

\* the managers and the release counts as a record
Managers(run, tm, fm, am, rel) ==
    [running |-> run, texman |-> tm, fontman |-> fm, audioman |-> am, released |-> rel]

\* TextureManager::clear() (also run by ~TextureManager)
clearTextures(m) ==
    [m EXCEPT !.released = releaseAll(@, "texture", m.texman.cache),
              !.texman = [@ EXCEPT !.cache = <<>>]]

\* FontManager::clear()
clearFonts(m) ==
    [m EXCEPT !.released = releaseAll(@, "font", m.fontman), !.fontman = <<>>]

\* AudioManager::cleanup()
cleanupAudio(m) ==
    [m EXCEPT !.released = releaseAll(releaseAll(@, "sfx", m.audioman.sfx),
                                      "music", m.audioman.mus),
              !.audioman = [sfx |-> <<>>, mus |-> <<>>]]

-----------------------------------------------------------------------------
(* Rendering *)

\* the whole window as an SDL_Rect
FullRect == [x |-> 0, y |-> 0, w |-> cfg.width, h |-> cfg.height]

\* SDL_RenderCopy / SDL_RenderCopyEx(renderer, tex, nullptr, &dst)
RenderCopy(tex, x, y, w, h) ==
    [op |-> "RenderCopy", tex |-> tex, x |-> x, y |-> y, w |-> w, h |-> h]

\* SDL_RenderFillRect(renderer, &r)
FillRect(x, y, w, h) ==
    [op |-> "FillRect", tex |-> NullTex, x |-> x, y |-> y, w |-> w, h |-> h]

\* the renderer as SDL_CreateRenderer leaves it: whole window, scale 1
NewRenderer == [viewport |-> FullRect, sx |-> 1, sy |-> 1, calls |-> <<>>]

\* the entities of all(w) that have a Transform, in iteration order
drawable(w) == SelectSeq(all(w), LAMBDA e : has(e, "Transform"))

\* Editor2::drawSceneToViewport(view): the renderer and the texture manager it
\* leaves.  The viewport saved on entry is set again on exit; the scale is set
\* to (1, 1) on exit.
drawSceneToViewport(w, sel, view, rend, tm) ==
    LET prev == rend.viewport
        bg == load(tm, "bg.png")
        bgCalls == IF bg.tex # NullTex
                   THEN <<RenderCopy(bg.tex, 0, 0, cfg.width, cfg.height)>>
                   ELSE <<>>
        ds == drawable(w)
        entCall(e) == LET tr == get(e, "Transform")
                      IN IF has(e, "Sprite")
                         THEN RenderCopy(get(e, "Sprite").tex, tr.x, tr.y, tr.w, tr.h)
                         ELSE FillRect(tr.x, tr.y, tr.w, tr.h)
        entCalls == [i \in 1..Len(ds) |-> entCall(ds[i])]
        hl == IF sel # NullPtr /\ InWorld(sel, w) /\ has(w.ents[sel.id], "Transform")
              THEN LET tr == get(w.ents[sel.id], "Transform")
                   IN <<FillRect(tr.x - 4, tr.y - 4, tr.w + 8, tr.h + 8)>>
              ELSE <<>>
    IN [renderer |-> [viewport |-> prev, sx |-> 1, sy |-> 1,
                      calls |-> bgCalls \o entCalls \o hl],
        texman |-> bg.tm]

\* renderEntities(eng): the draw calls it issues (Sprite scale 1, no source rect)
renderEntities(w) ==
    LET ds == drawable(w)
        entCall(e) == LET tr == get(e, "Transform")
                      IN IF has(e, "Sprite") /\ get(e, "Sprite").tex # NullTex
                         THEN RenderCopy(get(e, "Sprite").tex, tr.x, tr.y, tr.w, tr.h)
                         ELSE FillRect(tr.x, tr.y, tr.w, tr.h)
    IN [i \in 1..Len(ds) |-> entCall(ds[i])]

-----------------------------------------------------------------------------
(* The editor: Editor2 and the frame loop of main, src/sdl_game_engine_2.cpp *)

\* (wx, wy is the pointer of a viewport drag in world coordinates)
NoObs == [player |-> 0, enemy |-> 0, target |-> 0, caught |-> FALSE,
          picked |-> FALSE, scoreAtPickup |-> 0, wx |-> 0, wy |-> 0]

\* the Transform of entity id of store w
T(w, id) == get(w.ents[id], "Transform")

\* a write to the Transform of entity id
setT(w, id, t) == [w EXCEPT !.ents[id] = put(@, "Transform", t)]

\* a Sprite whose tex has been assigned
SpriteTex(owner, tex) == [Sprite(owner) EXCEPT !.tex = tex]

\* Editor2::spawnDemoScene: the World it builds; r1..r4 are the rand() results,
\* the Sprites get what texman.load returns
demoScene(g, r1, r2, r3, r4) ==
    LET l1 == load(texman, "player.png")
        l2 == load(l1.tm, "target.png")
        l3 == load(l2.tm, "enemy.png")
        w0 == NewWorld(g)
        p  == newId(w0)
        w1 == attach(attach(attach(create(w0), p,
                  Transform(p, cfg.width \div 2 - PlayerHalf, cfg.height \div 2 - PlayerHalf,
                            PlayerSize, PlayerSize)),
                  p, SpriteTex(p, l1.tex)), p, Velocity(p, 0, 0))
        t  == newId(w1)
        w2 == attach(attach(create(w1), t,
                  Transform(t, CRem(r1, cfg.width - TargetSize),
                            CRem(r2, cfg.height - TargetSize), TargetSize, TargetSize)),
                  t, SpriteTex(t, l2.tex))
        e  == newId(w2)
        w3 == attach(attach(create(w2), e,
                  Transform(e, CRem(r3, cfg.width - EnemySize),
                            CRem(r4, cfg.height - EnemySize), EnemySize, EnemySize)),
                  e, SpriteTex(e, l3.tex))
    IN w3

\* the texture manager after the three loads of spawnDemoScene
demoTexman == loadAll(texman, SubSeq(DemoImages, 1, 3))

\* a loop whose test never fails
InIteration_always == TRUE

\* the part of the frame loop in which events are pumped and update is called:
\* the loop is running, or this is the iteration in which a quit event arrived
InIteration == running \/ lastOp \in {"quit", "close", "key"}

\* first loop of Editor2::update: integrate the velocity, clamp to the world
integrate(w, dt) ==
    [w EXCEPT !.ents = [id \in DOMAIN w.ents |->
        LET e == w.ents[id]
        IN IF has(e, "Transform") /\ has(e, "Velocity")
           THEN LET tr == get(e, "Transform")
                    v  == get(e, "Velocity")
                IN put(e, "Transform",
                       clamp([tr EXCEPT !.x = @ + TruncDiv(v.vx * dt, 1000),
                                        !.y = @ + TruncDiv(v.vy * dt, 1000)]))
           ELSE e]]

\* the role the width heuristic gives an entity
roleOf(e) ==
    IF ~has(e, "Sprite") THEN "none"
    ELSE LET tr == get(e, "Transform")
         IN IF tr.w > PlayerMinW THEN "player"
            ELSE IF tr.w > EnemyMinW THEN "enemy" ELSE "target"

findRoles_first(w) ==
    LET es == all(w)
        first(role) == LET I == {i \in 1..Len(es) : roleOf(es[i]) = role}
                       IN IF I = {} THEN INVALID_ENTITY ELSE es[Min(I)].id
    IN [player |-> first("player"), enemy |-> first("enemy"), target |-> first("target")]

\* second loop of Editor2::update: the last entity of each class takes the role
findRoles(w) ==
    LET es == all(w)
        last(role) == LET I == {i \in 1..Len(es) : roleOf(es[i]) = role}
                      IN IF I = {} THEN INVALID_ENTITY ELSE es[Max(I)].id
    IN [player |-> last("player"), enemy |-> last("enemy"), target |-> last("target")]

\* the chase and the catch check of Editor2::update (line 237)
chaseAndCatch(w, sc, roles, dt) ==
    IF roles.player # 0 /\ roles.enemy # 0
    THEN LET pt == T(w, roles.player)
             et == chase(pt, T(w, roles.enemy), ChaseSpeed * dt, 1000)
             w1 == setT(w, roles.enemy, et)
         IN IF aabbIntersect(pt, et)
            THEN [w |-> setT(w1, roles.player,
                             [pt EXCEPT !.x = cfg.width \div 2 - PlayerHalf,
                                        !.y = cfg.height \div 2 - PlayerHalf]),
                  score |-> 0, caught |-> TRUE]
            ELSE [w |-> w1, score |-> sc, caught |-> FALSE]
    ELSE [w |-> w, score |-> sc, caught |-> FALSE]

\* the body of Editor2::update that runs while playing; r1, r2 are the rand()
\* results of the pickup
simulate(dt, r1, r2) ==
    LET w1 == integrate(world, dt)
        roles == findRoles(w1)
        c == chaseAndCatch(w1, score, roles, dt)
        picked == /\ roles.player # 0 /\ roles.target # 0
                  /\ aabbIntersect(T(c.w, roles.player), T(c.w, roles.target))
        o == [NoObs EXCEPT !.player = roles.player, !.enemy = roles.enemy,
                           !.target = roles.target, !.caught = c.caught,
                           !.picked = picked, !.scoreAtPickup = c.score]
    IN /\ obs' = o
       /\ IF ~picked
          THEN world' = c.w /\ score' = c.score /\ crashed' = crashed
          ELSE LET tt == T(c.w, roles.target)
               IN /\ score' = c.score + 1
                  \* (int)tt.w, (int)tt.h: whole numbers already
                  /\ \E ox \in RandMod(r1, cfg.width - tt.w) :
                       IF ox = Trap
                       THEN world' = c.w /\ crashed' = TRUE
                       ELSE \E oy \in RandMod(r2, cfg.height - tt.h) :
                              IF oy = Trap
                              THEN /\ world' = setT(c.w, roles.target, [tt EXCEPT !.x = ox])
                                   /\ crashed' = TRUE
                              ELSE /\ world' = setT(c.w, roles.target,
                                                    [tt EXCEPT !.x = ox, !.y = oy])
                                   /\ crashed' = crashed

update_ignoresPlaying(dt, r1, r2) == simulate(dt, r1, r2)

\* Editor2::update(dt): if(playing){ ... }
update(dt, r1, r2) ==
    IF playing
    THEN simulate(dt, r1, r2)
    ELSE /\ obs' = NoObs
         /\ UNCHANGED <<world, score, crashed>>

\* a drawSceneToViewport call of the frame: what it leaves behind
draws(w, sel, view, tm) ==
    LET d == drawSceneToViewport(w, sel, view, renderer, tm)
    IN renderer' = d.renderer /\ texman' = d.texman

\* the drawSceneToViewport(view) call of uiViewport
uiDraws(w, sel, tm) == \E view \in ViewRects : draws(w, sel, view, tm)

\* editor.update(dt) and the full-window drawSceneToViewport of the frame loop
Update ==
    /\ variant = "editor" /\ ~crashed /\ InIteration
    /\ frames < MaxFrames
    /\ \E dt \in DtSet, r \in PickupRands : update(dt, r[1], r[2])
    /\ IF crashed' THEN UNCHANGED drawVars
                   ELSE draws(world', selected, FullRect, texman)
    /\ frames' = frames + 1
    /\ lastOp' = "update"
    /\ UNCHANGED <<variant, cfg, selected, playing, keys, running, iterOrder, issued>>
    /\ UNCHANGED assetVars

\* the write `editor.world.all()[0]->get<Velocity>()->field = v` of the key handlers
setFirstVelocity(field, v) ==
    LET es == all(world)
    IN IF Len(es) = 0 \/ ~has(es[1], "Velocity")
       THEN \* all()[0] of an empty vector, or -> on nullptr
            world' = world /\ crashed' = TRUE
       ELSE LET vel == get(es[1], "Velocity")
                nv == IF field = "vx" THEN [vel EXCEPT !.vx = v] ELSE [vel EXCEPT !.vy = v]
            IN /\ world' = [world EXCEPT !.ents[es[1].id] = put(@, "Velocity", nv)]
               /\ crashed' = crashed

\* SDL_KEYDOWN in the event pump of main
KeyDown(k) ==
    /\ variant = "editor" /\ ~crashed /\ InIteration
    /\ playing
    /\ CASE k = "w" -> setFirstVelocity("vy", -KeySpeed)
         [] k = "s" -> setFirstVelocity("vy", KeySpeed)
         [] k = "a" -> setFirstVelocity("vx", -KeySpeed)
         [] k = "d" -> setFirstVelocity("vx", KeySpeed)
    /\ lastOp' = "key" /\ obs' = NoObs
    /\ UNCHANGED <<variant, cfg, selected, playing, score, keys, running, iterOrder,
                   frames, issued>>
    /\ UNCHANGED <<assetVars, drawVars>>

\* SDL_KEYUP in the event pump of main
KeyUp(k) ==
    /\ variant = "editor" /\ ~crashed /\ InIteration
    /\ playing
    /\ IF k \in {"w", "s"} THEN setFirstVelocity("vy", 0)
                            ELSE setFirstVelocity("vx", 0)
    /\ lastOp' = "key" /\ obs' = NoObs
    /\ UNCHANGED <<variant, cfg, selected, playing, score, keys, running, iterOrder,
                   frames, issued>>
    /\ UNCHANGED <<assetVars, drawVars>>

\* renderUI runs after update; one widget at most reports a click or a drag
InUI == variant = "editor" /\ ~crashed /\ lastOp = "update"

\* what no panel of the editor writes
UIFrame ==
    UNCHANGED <<variant, cfg, keys, running, crashed, iterOrder, frames, issued, assetVars>>

\* uiHierarchy: a Selectable is clicked
HierarchySelect(id) ==
    /\ InUI /\ id \in DOMAIN world.ents
    /\ selected' = PtrTo(world.ents[id])
    /\ lastOp' = "select" /\ obs' = NoObs
    /\ UNCHANGED <<world, playing, score>> /\ UIFrame
    /\ uiDraws(world', selected', texman)

\* uiHierarchy: Add Entity
HierarchyAdd ==
    /\ InUI
    /\ world' = attach(create(world), newId(world),
                       Transform(newId(world), NewEntityPos, NewEntityPos,
                                 NewEntitySize, NewEntitySize))
    /\ lastOp' = "add" /\ obs' = NoObs
    /\ UNCHANGED <<selected, playing, score>> /\ UIFrame
    /\ uiDraws(world', selected', texman)

deleteSelected_keep(w, sel) == [world |-> MapErase(w.ents, sel.id), selected |-> sel]

\* world.ents.erase(selected->id); selected = nullptr
deleteSelected(w, sel) == [world |-> MapErase(w.ents, sel.id), selected |-> NullPtr]

\* uiHierarchy: Delete Selected (shown only while something is selected)
HierarchyDelete ==
    /\ InUI /\ selected # NullPtr
    /\ LET d == deleteSelected(world, selected)
       IN world' = [world EXCEPT !.ents = d.world] /\ selected' = d.selected
    /\ lastOp' = "delete" /\ obs' = NoObs
    /\ UNCHANGED <<playing, score>> /\ UIFrame
    /\ uiDraws(world', selected', texman)

\* uiInspector: a DragFloat of the selected entity's Transform reports a change
InspectorEdit(field, v) ==
    /\ InUI /\ selected # NullPtr
    /\ InWorld(selected, world) /\ has(world.ents[selected.id], "Transform")
    /\ LET t == T(world, selected.id)
       IN world' = setT(world, selected.id,
                        CASE field = "x" -> [t EXCEPT !.x = v]
                          [] field = "y" -> [t EXCEPT !.y = v]
                          [] field = "w" -> [t EXCEPT !.w = v]
                          [] field = "h" -> [t EXCEPT !.h = v])
    /\ lastOp' = "inspect" /\ obs' = NoObs
    /\ UNCHANGED <<selected, playing, score>> /\ UIFrame
    /\ uiDraws(world', selected', texman)

\* uiInspector: Add Sprite Component (shown only while the selection has no Sprite)
InspectorAddSprite ==
    /\ InUI /\ selected # NullPtr
    /\ InWorld(selected, world) /\ ~has(world.ents[selected.id], "Sprite")
    /\ world' = attach(world, selected.id, Sprite(selected.id))
    /\ lastOp' = "addSprite" /\ obs' = NoObs
    /\ UNCHANGED <<selected, playing, score>> /\ UIFrame
    /\ uiDraws(world', selected', texman)

TogglePlay_resetsScore ==
    /\ InUI
    /\ playing' = ~playing /\ score' = 0
    /\ lastOp' = "toggle" /\ obs' = NoObs
    /\ UNCHANGED <<world, selected>> /\ UIFrame
    /\ uiDraws(world', selected', texman)

TogglePlay_dropsSelection ==
    /\ InUI
    /\ playing' = ~playing /\ selected' = NullPtr
    /\ lastOp' = "toggle" /\ obs' = NoObs
    /\ UNCHANGED <<world, score>> /\ UIFrame
    /\ uiDraws(world', selected', texman)

\* uiViewport: the Play / Pause button
TogglePlay ==
    /\ InUI
    /\ playing' = ~playing
    /\ lastOp' = "toggle" /\ obs' = NoObs
    /\ UNCHANGED <<world, selected, score>> /\ UIFrame
    /\ uiDraws(world', selected', texman)

spawnDemoScene_keepScore(r1, r2, r3, r4) ==
    [world |-> demoScene(1 - world.gen, r1, r2, r3, r4), selected |-> NullPtr,
     score |-> score, playing |-> playing]

spawnDemoScene_pause(r1, r2, r3, r4) ==
    [world |-> demoScene(1 - world.gen, r1, r2, r3, r4), selected |-> NullPtr,
     score |-> 0, playing |-> FALSE]

\* Editor2::spawnDemoScene: world = World(); selected = nullptr; score = 0; ...
\* (the playing flag is not written)
spawnDemoScene(r1, r2, r3, r4) ==
    [world |-> demoScene(1 - world.gen, r1, r2, r3, r4), selected |-> NullPtr,
     score |-> 0, playing |-> playing]

\* uiViewport: the Spawn Demo button
SpawnDemo ==
    /\ InUI
    /\ \E r \in SpawnRands :
         LET s == spawnDemoScene(r[1], r[2], r[3], r[4])
         IN /\ world' = s.world /\ selected' = s.selected
            /\ score' = s.score /\ playing' = s.playing
    /\ lastOp' = "spawn" /\ obs' = NoObs
    /\ UIFrame
    /\ uiDraws(world', selected', demoTexman)

\* the pointer in world coordinates: (mp - p) * (float)extent / s
screenToWorld_noOrigin(m, origin, extent, size) == TruncDiv(m * extent, size)

screenToWorld(m, origin, extent, size) == TruncDiv((m - origin) * extent, size)

pick_last(w, sx, sy) ==
    LET es == all(w)
        hits == {i \in 1..Len(es) :
                   /\ has(es[i], "Transform")
                   /\ LET tr == get(es[i], "Transform")
                      IN sx >= tr.x /\ sx <= tr.x + tr.w /\ sy >= tr.y /\ sy <= tr.y + tr.h}
    IN IF hits = {} THEN NullPtr ELSE PtrTo(es[Max(hits)])

\* the hit test of uiViewport: the first entity in iteration order under (sx, sy)
pick(w, sx, sy) ==
    LET es == all(w)
        hits == {i \in 1..Len(es) :
                   /\ has(es[i], "Transform")
                   /\ LET tr == get(es[i], "Transform")
                      IN sx >= tr.x /\ sx <= tr.x + tr.w /\ sy >= tr.y /\ sy <= tr.y + tr.h}
    IN IF hits = {} THEN NullPtr ELSE PtrTo(es[Min(hits)])

ViewportDrag_topLeft(view, mp) ==
    /\ InUI
    /\ LET sx == screenToWorld(mp[1], view.x, cfg.width, view.w)
           sy == screenToWorld(mp[2], view.y, cfg.height, view.h)
       IN IF selected # NullPtr
          THEN /\ selected' = selected
               /\ IF InWorld(selected, world) /\ has(world.ents[selected.id], "Transform")
                  THEN LET tr == T(world, selected.id)
                       IN world' = setT(world, selected.id,
                                        [tr EXCEPT !.x = sx, !.y = sy])
                  ELSE world' = world
          ELSE /\ world' = world
               /\ selected' = IF pick(world, sx, sy) = NullPtr THEN selected
                              ELSE pick(world, sx, sy)
    /\ lastOp' = "drag"
    /\ obs' = [NoObs EXCEPT !.wx = screenToWorld(mp[1], view.x, cfg.width, view.w),
                            !.wy = screenToWorld(mp[2], view.y, cfg.height, view.h)]
    /\ UNCHANGED <<playing, score>> /\ UIFrame
    /\ draws(world, selected, view, texman)

ViewportDrag_repick(view, mp) ==
    /\ InUI
    /\ LET sx == screenToWorld(mp[1], view.x, cfg.width, view.w)
           sy == screenToWorld(mp[2], view.y, cfg.height, view.h)
       IN IF selected # NullPtr
          THEN /\ selected' = IF pick(world, sx, sy) = NullPtr THEN selected
                              ELSE pick(world, sx, sy)
               /\ IF InWorld(selected, world) /\ has(world.ents[selected.id], "Transform")
                  THEN LET tr == T(world, selected.id)
                       IN world' = setT(world, selected.id,
                                        [tr EXCEPT !.x = sx - tr.w \div 2,
                                                   !.y = sy - tr.h \div 2])
                  ELSE world' = world
          ELSE /\ world' = world
               /\ selected' = IF pick(world, sx, sy) = NullPtr THEN selected
                              ELSE pick(world, sx, sy)
    /\ lastOp' = "drag"
    /\ obs' = [NoObs EXCEPT !.wx = screenToWorld(mp[1], view.x, cfg.width, view.w),
                            !.wy = screenToWorld(mp[2], view.y, cfg.height, view.h)]
    /\ UNCHANGED <<playing, score>> /\ UIFrame
    /\ draws(world, selected, view, texman)

\* uiViewport: the viewport item is active and the pointer is being dragged
ViewportDrag(view, mp) ==
    /\ InUI
    /\ LET sx == screenToWorld(mp[1], view.x, cfg.width, view.w)
           sy == screenToWorld(mp[2], view.y, cfg.height, view.h)
       IN IF selected # NullPtr
          THEN /\ selected' = selected
               /\ IF InWorld(selected, world) /\ has(world.ents[selected.id], "Transform")
                  THEN LET tr == T(world, selected.id)
                       IN world' = setT(world, selected.id,
                                        [tr EXCEPT !.x = sx - tr.w \div 2,
                                                   !.y = sy - tr.h \div 2])
                  ELSE world' = world
          ELSE /\ world' = world
               /\ selected' = IF pick(world, sx, sy) = NullPtr THEN selected
                              ELSE pick(world, sx, sy)
    /\ lastOp' = "drag"
    /\ obs' = [NoObs EXCEPT !.wx = screenToWorld(mp[1], view.x, cfg.width, view.w),
                            !.wy = screenToWorld(mp[2], view.y, cfg.height, view.h)]
    /\ UNCHANGED <<playing, score>> /\ UIFrame
    /\ draws(world, selected, view, texman)

\* main up to the frame loop: Editor2(&core), spawnDemoScene()
InitEditor ==
    /\ variant = "editor"
    /\ cfg = [width |-> EditorWidth, height |-> EditorHeight]
    /\ iterOrder \in {"ascending", "descending"}
    /\ files = {DemoImages[i] : i \in 1..Len(DemoImages)}
    /\ texman = loadAll(NewTexman(TRUE), DemoImages)
    /\ \E r \in SpawnRands : world = demoScene(1, r[1], r[2], r[3], r[4])
    /\ selected = NullPtr
    /\ playing = FALSE
    /\ score = 0
    /\ keys = <<>>
    /\ running = TRUE
    /\ crashed = FALSE
    /\ lastOp = "init"
    /\ obs = NoObs
    /\ frames = 0
    /\ issued = <<>>
    /\ fontman = <<>>
    /\ audioman = [sfx |-> <<>>, mus |-> <<>>]
    /\ released = tracked(texman, fontman, audioman)
    /\ renderer = NewRenderer
    /\ loads = <<>>
    /\ probe = NoProbe

NextEditor ==
    \/ Update
    \/ \E k \in EditorKeys : KeyDown(k)
    \/ \E k \in EditorKeys : KeyUp(k)
    \/ \E id \in DOMAIN world.ents : HierarchySelect(id)
    \/ HierarchyAdd
    \/ HierarchyDelete
    \/ \E e \in InspEdits : InspectorEdit(e[1], e[2])
    \/ InspectorAddSprite
    \/ TogglePlay
    \/ SpawnDemo
    \/ \E view \in ViewRects, mp \in MousePts : ViewportDrag(view, mp)

SpecEditor == InitEditor /\ [][NextEditor]_vars

-----------------------------------------------------------------------------
(* The World as a unit: createEntity / destroyEntity, src/sdl_game_engine.cpp *)

\* identifiers handed to destroyEntity: live ones, destroyed ones, never made ones
DestroyIds == 0..(MaxCreates + 1)

WorldCreate ==
    /\ variant = "world"
    /\ Len(issued) < MaxCreates
    /\ world' = create(world)
    /\ issued' = Append(issued, Fresh(world).id)
    /\ lastOp' = "create"
    /\ UNCHANGED <<variant, cfg, selected, playing, score, keys, running, crashed,
                   iterOrder, obs, frames>>
    /\ UNCHANGED <<assetVars, drawVars>>

WorldDestroy(id) ==
    /\ variant = "world"
    /\ world' = destroyEntity(world, id)
    /\ lastOp' = "destroy"
    /\ UNCHANGED <<variant, cfg, selected, playing, score, keys, running, crashed,
                   iterOrder, obs, frames, issued>>
    /\ UNCHANGED <<assetVars, drawVars>>

\* World(): nextId = 1, no entities
InitWorld ==
    /\ variant = "world"
    /\ cfg = [width |-> GameWidth, height |-> GameHeight]
    /\ iterOrder \in {"ascending", "descending"}
    /\ world = NewWorld(0)
    /\ selected = NullPtr
    /\ playing = FALSE
    /\ score = 0
    /\ keys = <<>>
    /\ running = FALSE
    /\ crashed = FALSE
    /\ lastOp = "init"
    /\ obs = NoObs
    /\ frames = 0
    /\ issued = <<>>
    /\ files = {}
    /\ texman = NewTexman(FALSE)
    /\ fontman = <<>>
    /\ audioman = [sfx |-> <<>>, mus |-> <<>>]
    /\ released = <<>>
    /\ renderer = NewRenderer
    /\ loads = <<>>
    /\ probe = NoProbe

NextWorld ==
    \/ WorldCreate
    \/ \E id \in DestroyIds : WorldDestroy(id)

SpecWorld == InitWorld /\ [][NextWorld]_vars

-----------------------------------------------------------------------------
(* The Entity as a unit: addComponent, src/sdl_game_engine.cpp *)

Kinds == {"Transform", "Sprite", "Velocity"}

\* make_shared<T>() with c->owner = id: a component with its default members
newComponent(kind, owner) ==
    CASE kind = "Transform" -> Transform(owner, 0, 0, 0, 0)
      [] kind = "Sprite" -> Sprite(owner)
      [] kind = "Velocity" -> Velocity(owner, 0, 0)

\* the entity the unit specification works on: the first one of a new World
UnitEntity == newId(NewWorld(0))

\* e->addComponent<T>() / e->add<T>()
EntityAdd(kind) ==
    /\ variant = "entity"
    /\ Len(world.ents[UnitEntity].comps) < MaxComponents
    /\ world' = attach(world, UnitEntity, newComponent(kind, UnitEntity))
    /\ lastOp' = "addComponent"
    /\ UNCHANGED <<variant, cfg, selected, playing, score, keys, running, crashed,
                   iterOrder, obs, frames, issued>>
    /\ UNCHANGED <<assetVars, drawVars>>

\* an entity just created: no components
InitEntity ==
    /\ variant = "entity"
    /\ cfg = [width |-> GameWidth, height |-> GameHeight]
    /\ iterOrder \in {"ascending", "descending"}
    /\ world = create(NewWorld(0))
    /\ selected = NullPtr
    /\ playing = FALSE
    /\ score = 0
    /\ keys = <<>>
    /\ running = FALSE
    /\ crashed = FALSE
    /\ lastOp = "init"
    /\ obs = NoObs
    /\ frames = 0
    /\ issued = <<>>
    /\ files = {}
    /\ texman = NewTexman(FALSE)
    /\ fontman = <<>>
    /\ audioman = [sfx |-> <<>>, mus |-> <<>>]
    /\ released = <<>>
    /\ renderer = NewRenderer
    /\ loads = <<>>
    /\ probe = NoProbe

NextEntity == \E kind \in Kinds : EntityAdd(kind)

SpecEntity == InitEntity /\ [][NextEntity]_vars

-----------------------------------------------------------------------------
(* The TextureManager as a unit: load *)

\* the paths load is called with
TexturePaths == {"player.png", "bg.png"}

\* texman.load(path)
TexLoad(path) ==
    /\ variant = "textures"
    /\ Len(loads) < MaxLoads
    /\ LET l == load(texman, path)
       IN /\ texman' = l.tm
          /\ loads' = Append(loads, [path |-> path, tex |-> l.tex, decoded |-> l.decoded])
          /\ released' = tracked(l.tm, fontman, audioman)
    /\ lastOp' = "load"
    /\ UNCHANGED <<variant, cfg, world, selected, playing, score, keys, running, crashed,
                   iterOrder, obs, frames, issued, files, fontman, audioman, renderer, probe>>

\* TextureManager(r) with an empty cache; any subset of the paths can be decoded
InitTextures ==
    /\ variant = "textures"
    /\ cfg = [width |-> EditorWidth, height |-> EditorHeight]
    /\ iterOrder = "ascending"
    /\ world = NewWorld(0)
    /\ selected = NullPtr
    /\ playing = FALSE
    /\ score = 0
    /\ keys = <<>>
    /\ running = FALSE
    /\ crashed = FALSE
    /\ lastOp = "init"
    /\ obs = NoObs
    /\ frames = 0
    /\ issued = <<>>
    /\ files \in SUBSET TexturePaths
    /\ \E ren \in BOOLEAN : texman = NewTexman(ren)
    /\ fontman = <<>>
    /\ audioman = [sfx |-> <<>>, mus |-> <<>>]
    /\ released = <<>>
    /\ renderer = NewRenderer
    /\ loads = <<>>
    /\ probe = NoProbe

NextTextures == \E path \in TexturePaths : TexLoad(path)

SpecTextures == InitTextures /\ [][NextTextures]_vars

-----------------------------------------------------------------------------
(* The renderer's draw transform around Editor2::drawSceneToViewport *)

\* viewport rectangles and scale factors a caller may have set before the call
PriorViewports == {[x |-> 0, y |-> 0, w |-> EditorWidth, h |-> EditorHeight],
                   [x |-> 100, y |-> 50, w |-> 400, h |-> 300]}
PriorScales == {1, 2}

\* the rectangles drawSceneToViewport is called with: the whole window (main)
\* and the Viewport panel's item rectangle (uiViewport)
DrawRects == ViewRects \cup {[x |-> 0, y |-> 0, w |-> EditorWidth, h |-> EditorHeight]}

\* SDL_RenderSetViewport(renderer, &rect) by a client of the renderer
RenderSetViewport(rect) ==
    /\ variant = "renderer"
    /\ renderer' = [renderer EXCEPT !.viewport = rect]
    /\ lastOp' = "setViewport"
    /\ UNCHANGED <<variant, cfg, world, selected, playing, score, keys, running, crashed,
                   iterOrder, obs, frames, issued, assetVars, texman>>

\* SDL_RenderSetScale(renderer, sx, sy) by a client of the renderer
RenderSetScale(sx, sy) ==
    /\ variant = "renderer"
    /\ renderer' = [renderer EXCEPT !.sx = sx, !.sy = sy]
    /\ lastOp' = "setScale"
    /\ UNCHANGED <<variant, cfg, world, selected, playing, score, keys, running, crashed,
                   iterOrder, obs, frames, issued, assetVars, texman>>

\* editor.drawSceneToViewport(view)
RenderDraw(view) ==
    /\ variant = "renderer"
    /\ draws(world, selected, view, texman)
    /\ lastOp' = "draw"
    /\ UNCHANGED <<variant, cfg, world, selected, playing, score, keys, running, crashed,
                   iterOrder, obs, frames, issued, assetVars>>

\* the editor with its demo scene and a renderer in any of the prior transforms
InitRenderer ==
    /\ variant = "renderer"
    /\ cfg = [width |-> EditorWidth, height |-> EditorHeight]
    /\ iterOrder \in {"ascending", "descending"}
    /\ files = {DemoImages[i] : i \in 1..Len(DemoImages)}
    /\ texman = loadAll(NewTexman(TRUE), DemoImages)
    /\ \E r \in SpawnRands : world = demoScene(1, r[1], r[2], r[3], r[4])
    /\ selected = NullPtr
    /\ playing = FALSE
    /\ score = 0
    /\ keys = <<>>
    /\ running = FALSE
    /\ crashed = FALSE
    /\ lastOp = "init"
    /\ obs = NoObs
    /\ frames = 0
    /\ issued = <<>>
    /\ fontman = <<>>
    /\ audioman = [sfx |-> <<>>, mus |-> <<>>]
    /\ released = tracked(texman, fontman, audioman)
    /\ \E vp \in PriorViewports, sx \in PriorScales, sy \in PriorScales :
          renderer = [viewport |-> vp, sx |-> sx, sy |-> sy, calls |-> <<>>]
    /\ loads = <<>>
    /\ probe = NoProbe

NextRenderer ==
    \/ \E rect \in PriorViewports : RenderSetViewport(rect)
    \/ \E sx \in PriorScales, sy \in PriorScales : RenderSetScale(sx, sy)
    \/ \E view \in DrawRects : RenderDraw(view)

SpecRenderer == InitRenderer /\ [][NextRenderer]_vars

(***************************************************************************)
(* The Viewport panel as a unit: the rectangle uiViewport builds from the  *)
(* content region ImGui reports, the draw transform drawSceneToViewport    *)
(* derives from it, and the pointer mapping of the drag.  The pointer is   *)
(* put on the pixel at which the draw transform shows a chosen world       *)
(* point.                                                                  *)
(***************************************************************************)

\* the least size uiViewport gives the panel's item
MinViewW == 200
MinViewH == 150

\* content regions ImGui can report (a collapsed or tiny window included)
AvailSizes == {<<0, 0>>, <<100, 180>>, <<320, 90>>, <<640, 360>>, <<1280, 720>>}

\* top-left corners of the panel's item
PanelOrigins == {<<0, 0>>, <<320, 180>>}

\* world points whose images are whole pixels under every scale above
WorldPts == {<<x, y>> : x \in {0, 32, 640, 1248}, y \in {0, 24, 360, 696}}

viewRect_min1(p, avail) ==
    [x |-> p[1], y |-> p[2], w |-> Max({avail[1], 1}), h |-> Max({avail[2], 1})]

\* uiViewport: avail clamped, InvisibleButton(avail), view = its rectangle
viewRect(p, avail) ==
    [x |-> p[1], y |-> p[2],
     w |-> Max({avail[1], MinViewW}), h |-> Max({avail[2], MinViewH})]

\* where the draw transform of drawSceneToViewport puts a world coordinate:
\* viewport offset plus coordinate times scale, scale = size / extent
worldToScreen(c, origin, extent, size) == origin + TruncDiv(c * size, extent)

\* one uiViewport call with a drag at the image of world point wp
ViewportPanel(avail, origin, wp) ==
    /\ variant = "viewport"
    /\ LET view == viewRect(origin, avail)
           mx == worldToScreen(wp[1], view.x, cfg.width, view.w)
           my == worldToScreen(wp[2], view.y, cfg.height, view.h)
       IN /\ draws(world, selected, view, texman)
          /\ probe' = [op |-> "panel", avail |-> avail, view |-> view,
                       \* the divisors of the scale factors and of the mapping
                       divisors |-> <<cfg.width, cfg.height, view.w, view.h>>,
                       point |-> wp, mouse |-> <<mx, my>>,
                       world |-> <<screenToWorld(mx, view.x, cfg.width, view.w),
                                   screenToWorld(my, view.y, cfg.height, view.h)>>]
    /\ lastOp' = "panel"
    /\ UNCHANGED <<variant, cfg, world, selected, playing, score, keys, running, crashed,
                   iterOrder, obs, frames, issued, files, fontman, audioman, released,
                   loads>>

\* the full-window drawSceneToViewport of the frame loop
FullWindowDraw ==
    /\ variant = "viewport"
    /\ draws(world, selected, FullRect, texman)
    /\ probe' = [op |-> "full", view |-> FullRect,
                 divisors |-> <<cfg.width, cfg.height>>]
    /\ lastOp' = "full"
    /\ UNCHANGED <<variant, cfg, world, selected, playing, score, keys, running, crashed,
                   iterOrder, obs, frames, issued, files, fontman, audioman, released,
                   loads>>

\* the editor after loadDemoAssets and spawnDemoScene, before the first frame
InitViewport ==
    /\ variant = "viewport"
    /\ cfg = [width |-> EditorWidth, height |-> EditorHeight]
    /\ iterOrder \in {"ascending", "descending"}
    /\ files = {DemoImages[i] : i \in 1..Len(DemoImages)}
    /\ texman = loadAll(NewTexman(TRUE), DemoImages)
    /\ \E r \in SpawnRands : world = demoScene(1, r[1], r[2], r[3], r[4])
    /\ selected = NullPtr
    /\ playing = FALSE
    /\ score = 0
    /\ keys = <<>>
    /\ running = TRUE
    /\ crashed = FALSE
    /\ lastOp = "init"
    /\ obs = NoObs
    /\ frames = 0
    /\ issued = <<>>
    /\ fontman = <<>>
    /\ audioman = [sfx |-> <<>>, mus |-> <<>>]
    /\ released = tracked(texman, fontman, audioman)
    /\ renderer = NewRenderer
    /\ loads = <<>>
    /\ probe = NoProbe

NextViewport ==
    \/ \E avail \in AvailSizes, origin \in PanelOrigins, wp \in WorldPts :
         ViewportPanel(avail, origin, wp)
    \/ FullWindowDraw

SpecViewport == InitViewport /\ [][NextViewport]_vars

(***************************************************************************)
(* aabbIntersect and the chase step as functions: any caller, rectangles   *)
(* and positions drawn from small sets that hold the cases of interest     *)
(* (apart, overlapping, touching at an edge or a corner, degenerate and    *)
(* negative sizes; centres equal, one pixel apart, far apart).  A run is    *)
(* one call.                                                               *)
(***************************************************************************)

\* rectangles for aabbIntersect
Rects == {[x |-> x, y |-> y, w |-> w, h |-> h] :
            x \in {0, 2, 3}, y \in {0, 2, 3}, w \in {-1, 0, 2}, h \in {0, 2}}

\* vectors from the enemy's centre to the player's, of whole length
ChaseDeltas == {<<0, 0>>, <<1, 0>>, <<0, -1>>, <<3, 4>>, <<-3, 4>>, <<3, -4>>, <<-4, -3>>,
                <<5, 12>>, <<-12, 5>>, <<30, 40>>, <<-40, 30>>, <<0, 50>>, <<-50, 0>>,
                <<8, -6>>}

\* the chase speed as a fraction: 100.0f*dt in the editor, 1.5f in the game
ChaseSpeeds == {<<ChaseSpeed * dt, 1000>> : dt \in DtSet} \cup {<<3, 2>>}

\* where the player stands in the calls
ChasePlayers == {[x |-> 608, y |-> 328, w |-> PlayerSize, h |-> PlayerSize],
                 [x |-> 0, y |-> 0, w |-> PlayerSize, h |-> PlayerSize]}

\* the enemy whose centre is d away from the centre of pt
enemyAt(pt, d) ==
    [x |-> pt.x + pt.w \div 2 - d[1] - EnemySize \div 2,
     y |-> pt.y + pt.h \div 2 - d[2] - EnemySize \div 2,
     w |-> EnemySize, h |-> EnemySize]

\* aabbIntersect called on a and b, in both orders and on a alone
Intersect(a, b) ==
    /\ variant = "geometry" /\ probe = NoProbe
    /\ probe' = [op |-> "aabb", a |-> a, b |-> b,
                 ab |-> aabbIntersect(a, b), ba |-> aabbIntersect(b, a),
                 aa |-> aabbIntersect(a, a)]
    /\ lastOp' = "aabb"
    /\ UNCHANGED <<variant, cfg, world, selected, playing, score, keys, running, crashed,
                   iterOrder, obs, frames, issued, files, fontman, audioman, released,
                   loads, drawVars>>

\* the chase step applied to a player and an enemy
ChaseCall(pt, d, sp) ==
    /\ variant = "geometry" /\ probe = NoProbe
    /\ probe' = [op |-> "chase", pt |-> pt, et |-> enemyAt(pt, d),
                 num |-> sp[1], den |-> sp[2],
                 after |-> chase(pt, enemyAt(pt, d), sp[1], sp[2])]
    /\ lastOp' = "chase"
    /\ UNCHANGED <<variant, cfg, world, selected, playing, score, keys, running, crashed,
                   iterOrder, obs, frames, issued, files, fontman, audioman, released,
                   loads, drawVars>>

InitGeometry ==
    /\ variant = "geometry"
    /\ cfg = [width |-> EditorWidth, height |-> EditorHeight]
    /\ iterOrder \in {"ascending", "descending"}
    /\ world = NewWorld(0)
    /\ selected = NullPtr
    /\ playing = FALSE
    /\ score = 0
    /\ keys = <<>>
    /\ running = FALSE
    /\ crashed = FALSE
    /\ lastOp = "init"
    /\ obs = NoObs
    /\ frames = 0
    /\ issued = <<>>
    /\ files = {}
    /\ texman = NewTexman(FALSE)
    /\ fontman = <<>>
    /\ audioman = [sfx |-> <<>>, mus |-> <<>>]
    /\ released = <<>>
    /\ renderer = NewRenderer
    /\ loads = <<>>
    /\ probe = NoProbe

NextGeometry ==
    \/ \E a \in Rects, b \in Rects : Intersect(a, b)
    \/ \E pt \in ChasePlayers, d \in ChaseDeltas, sp \in ChaseSpeeds : ChaseCall(pt, d, sp)

SpecGeometry == InitGeometry /\ [][NextGeometry]_vars

-----------------------------------------------------------------------------
(* The demo game: main, Engine::run and onUpdate, src/sdl_game_engine.cpp *)

\* the entities main captures: player, target, enemy are created in this order
GamePlayer == 1
GameTarget == 2
GameEnemy == 3

\* the SDL_Texture* main keeps from eng.loadTexture(path): nullptr when the
\* load failed
loadedTex(path) == IF path \in DOMAIN texman.cache THEN texman.cache[path] ELSE NullTex

\* main, "Create entities": the World after the three createEntity calls
gameScene(r1, r2, r3, r4) ==
    LET w0 == NewWorld(0)
        p  == newId(w0)
        w1 == attach(attach(attach(create(w0), p,
                  Transform(p, cfg.width \div 2 - PlayerHalf, cfg.height \div 2 - PlayerHalf,
                            PlayerSize, PlayerSize)),
                  p, SpriteTex(p, loadedTex("player.png"))), p, Velocity(p, 0, 0))
        t  == newId(w1)
        w2 == attach(attach(create(w1), t,
                  Transform(t, CRem(r1, cfg.width - TargetSize),
                            CRem(r2, cfg.height - TargetSize), TargetSize, TargetSize)),
                  t, SpriteTex(t, loadedTex("target.png")))
        e  == newId(w2)
        w3 == attach(attach(create(w2), e,
                  Transform(e, CRem(r3, cfg.width - GameEnemyMargin),
                            CRem(r4, cfg.height - GameEnemyMargin), EnemySize, EnemySize)),
                  e, SpriteTex(e, loadedTex("enemy.png")))
    IN w3

\* keys.at(a) || keys.at(b) on the const map: at() throws std::out_of_range for
\* a scancode no event has been recorded for; b is looked up only if a is false
eitherKey(a, b) ==
    IF a \notin DOMAIN keys THEN "throw"
    ELSE IF keys[a] THEN "true"
    ELSE IF b \notin DOMAIN keys THEN "throw"
    ELSE IF keys[b] THEN "true" ELSE "false"

\* the input block of onUpdate: the velocity it leaves and whether at() threw
readKeys ==
    LET up    == eitherKey("W", "UP")
        down  == eitherKey("S", "DOWN")
        left  == eitherKey("A", "LEFT")
        right == eitherKey("D", "RIGHT")
        vy1 == IF up = "true" THEN -GameSpeed ELSE 0
        vy2 == IF down = "true" THEN GameSpeed ELSE vy1
        vx3 == IF left = "true" THEN -GameSpeed ELSE 0
        vx4 == IF right = "true" THEN GameSpeed ELSE vx3
    IN IF up = "throw" THEN [vx |-> 0, vy |-> 0, threw |-> TRUE]
       ELSE IF down = "throw" THEN [vx |-> 0, vy |-> vy1, threw |-> TRUE]
       ELSE IF left = "throw" THEN [vx |-> 0, vy |-> vy2, threw |-> TRUE]
       ELSE IF right = "throw" THEN [vx |-> vx3, vy |-> vy2, threw |-> TRUE]
       ELSE [vx |-> vx4, vy |-> vy2, threw |-> FALSE]

\* physicsSystem: t += v for every entity with both, then the bounds clamp
physicsSystem(w) ==
    [w EXCEPT !.ents = [id \in DOMAIN w.ents |->
        LET e == w.ents[id]
        IN IF has(e, "Transform") /\ has(e, "Velocity")
           THEN LET t == get(e, "Transform")
                    v == get(e, "Velocity")
                IN put(e, "Transform", clamp([t EXCEPT !.x = @ + v.vx, !.y = @ + v.vy]))
           ELSE e]]

\* where the reset of onUpdate puts the player: cfg.width / 2.0f, cfg.height / 2
resetPlayer(pt) == [pt EXCEPT !.x = cfg.width \div 2, !.y = cfg.height \div 2]

\* the onUpdate lambda of main; r is the tuple of rand() results it may draw
onUpdate(r) ==
    LET k == readKeys
        pv == [get(world.ents[GamePlayer], "Velocity") EXCEPT !.vx = k.vx, !.vy = k.vy]
        w0 == [world EXCEPT !.ents[GamePlayer] = put(@, "Velocity", pv)]
    IN IF k.threw
       THEN \* the exception leaves onUpdate, run and main: std::terminate
            /\ world' = w0 /\ crashed' = TRUE
            /\ score' = score /\ obs' = NoObs
       ELSE LET w1 == physicsSystem(w0)
                pt == T(w1, GamePlayer)
                \* enemy AI: 1.5 px per frame toward the player
                et1 == chase(pt, T(w1, GameEnemy), 3, 2)
                tt1 == T(w1, GameTarget)
                picked == aabbIntersect(pt, tt1)
                tt2 == IF picked
                       THEN [tt1 EXCEPT !.x = CRem(r[1], cfg.width - tt1.w),
                                        !.y = CRem(r[2], cfg.height - tt1.h)]
                       ELSE tt1
                et2 == IF picked
                       THEN [et1 EXCEPT !.x = CRem(r[3], cfg.width - et1.w),
                                        !.y = CRem(r[4], cfg.height - et1.h)]
                       ELSE et1
                s2 == IF picked THEN score + 1 ELSE score
                caught == aabbIntersect(pt, et2)
                pt3 == IF caught THEN resetPlayer(pt) ELSE pt
                et3 == IF caught
                       THEN [et2 EXCEPT !.x = CRem(r[5], cfg.width - et2.w),
                                        !.y = CRem(r[6], cfg.height - et2.h)]
                       ELSE et2
            IN /\ world' = setT(setT(setT(w1, GameTarget, tt2), GameEnemy, et3),
                                GamePlayer, pt3)
               /\ score' = IF caught THEN 0 ELSE s2
               /\ obs' = [NoObs EXCEPT !.player = GamePlayer, !.enemy = GameEnemy,
                                        !.target = GameTarget, !.caught = caught,
                                        !.picked = picked, !.scoreAtPickup = score]
               /\ crashed' = crashed

\* the onRender lambda of main: background, then renderEntities (the HUD
\* texture is made and destroyed inside the call)
onRender(w) ==
    LET bg == loadedTex("bg.png")
    IN (IF bg # NullTex THEN <<RenderCopy(bg, 0, 0, cfg.width, cfg.height)>> ELSE <<>>)
       \o renderEntities(w)

\* `if (onUpdate) onUpdate(*this)` and `if (onRender) onRender(*this)` of Engine::run
GameUpdate ==
    /\ variant = "game" /\ ~crashed /\ InIteration
    /\ frames < MaxFrames
    /\ \E r \in GameUpdateRands : onUpdate(r)
    /\ renderer' = IF crashed' THEN renderer ELSE [renderer EXCEPT !.calls = onRender(world')]
    /\ frames' = frames + 1
    /\ lastOp' = "update"
    /\ UNCHANGED <<variant, cfg, selected, playing, keys, running, iterOrder, issued>>
    /\ UNCHANGED <<assetVars, texman>>

\* SDL_KEYDOWN / SDL_KEYUP in the event pump of Engine::run: keys[scancode] = down
GameKey(k, down) ==
    /\ variant = "game" /\ ~crashed /\ InIteration
    /\ keys' = MapPut(keys, k, down)
    /\ lastOp' = "key" /\ obs' = NoObs
    /\ UNCHANGED <<variant, cfg, world, selected, playing, score, running, crashed,
                   iterOrder, frames, issued>>
    /\ UNCHANGED <<assetVars, drawVars>>

\* SDL_QUIT in the event pump of Engine::run
GameQuit ==
    /\ variant = "game" /\ ~crashed /\ running
    /\ frames < MaxFrames
    /\ running' = FALSE
    /\ lastOp' = "quit" /\ obs' = NoObs
    /\ UNCHANGED <<variant, cfg, world, selected, playing, score, keys, crashed,
                   iterOrder, frames, issued>>
    /\ UNCHANGED <<assetVars, drawVars>>

\* Engine::stop(): everything is inside if (running)
stop(m) ==
    IF m.running
    THEN cleanupAudio(clearFonts(clearTextures([m EXCEPT !.running = FALSE])))
    ELSE m

\* the way out of main once Engine::run has returned: eng.stop(), then ~Engine
\* (stop() again), then the members' destructors: of the managers only
\* TextureManager has one (it calls clear())
shutdown(m) == clearTextures(stop(stop(m)))

\* Engine::run has left its loop (the frame in which the quit event arrived is
\* complete): main runs to `return 0`
GameExit ==
    /\ variant = "game" /\ ~crashed /\ ~running /\ lastOp = "update"
    /\ LET m == shutdown(Managers(running, texman, fontman, audioman, released))
       IN /\ running' = m.running
          /\ texman' = m.texman
          /\ fontman' = m.fontman
          /\ audioman' = m.audioman
          /\ released' = m.released
    /\ lastOp' = "exit" /\ obs' = NoObs
    /\ UNCHANGED <<variant, cfg, world, selected, playing, score, keys, crashed,
                   iterOrder, frames, issued, files, renderer, loads, probe>>

\* the assets main asks the managers for
GameAssets == {DemoImages[i] : i \in 1..Len(DemoImages)} \cup {"font.ttf", "hit.wav", "music.ogg"}

\* main up to eng.run: init succeeded, assets loaded, entities created, score = 0
InitGame ==
    /\ variant = "game"
    /\ cfg = [width |-> GameWidth, height |-> GameHeight]
    /\ iterOrder \in {"ascending", "descending"}
    /\ files \in {GameAssets, {}}
    /\ texman = loadAll(NewTexman(TRUE), DemoImages)
    /\ fontman = cacheLoad(<<>>, "font.ttf#24", "font.ttf")
    /\ audioman = [sfx |-> cacheLoad(<<>>, "hit.wav", "hit.wav"),
                   mus |-> cacheLoad(<<>>, "music.ogg", "music.ogg")]
    /\ released = tracked(texman, fontman, audioman)
    /\ renderer = NewRenderer
    /\ loads = <<>>
    /\ probe = NoProbe
    /\ \E r \in GameInitRands : world = gameScene(r[1], r[2], r[3], r[4])
    /\ selected = NullPtr
    /\ playing = FALSE
    /\ score = 0
    /\ keys = <<>>
    /\ running = TRUE
    /\ crashed = FALSE
    /\ lastOp = "init"
    /\ obs = NoObs
    /\ frames = 0
    /\ issued = <<>>

NextGame ==
    \/ GameUpdate
    \/ \E k \in GameKeys, down \in BOOLEAN : GameKey(k, down)
    \/ GameQuit
    \/ GameExit

SpecGame == InitGame /\ [][NextGame]_vars

(***************************************************************************)
(* The demo game in play: from the start of main, and from a state some    *)
(* ninety frames on, in which the player has been driven into the          *)
(* bottom-right corner with W, A, S and D held (S and D win) and a pickup  *)
(* on arrival has relocated the target and the enemy.                      *)
(***************************************************************************)

\* the scene with the player in the bottom-right corner, target and enemy
\* where the pickup's rand() calls put them
gameCornerScene(r1, r2, r3, r4) ==
    LET w  == gameScene(0, 0, 0, 0)
        pt == T(w, GamePlayer)
        tt == T(w, GameTarget)
        et == T(w, GameEnemy)
        w1 == setT(w, GamePlayer, [pt EXCEPT !.x = cfg.width - pt.w, !.y = cfg.height - pt.h])
        w2 == setT(w1, GameTarget, [tt EXCEPT !.x = CRem(r1, cfg.width - tt.w),
                                             !.y = CRem(r2, cfg.height - tt.h)])
        w3 == setT(w2, GameEnemy, [et EXCEPT !.x = CRem(r3, cfg.width - et.w),
                                            !.y = CRem(r4, cfg.height - et.h)])
    IN [w3 EXCEPT !.ents[GamePlayer] =
            put(@, "Velocity", [get(@, "Velocity") EXCEPT !.vx = GameSpeed, !.vy = GameSpeed])]

InitGameCorner ==
    /\ variant = "game"
    /\ cfg = [width |-> GameWidth, height |-> GameHeight]
    /\ iterOrder \in {"ascending", "descending"}
    /\ files = GameAssets
    /\ texman = loadAll(NewTexman(TRUE), DemoImages)
    /\ fontman = cacheLoad(<<>>, "font.ttf#24", "font.ttf")
    /\ audioman = [sfx |-> cacheLoad(<<>>, "hit.wav", "hit.wav"),
                   mus |-> cacheLoad(<<>>, "music.ogg", "music.ogg")]
    /\ released = tracked(texman, fontman, audioman)
    /\ loads = <<>>
    /\ probe = NoProbe
    /\ \E r \in GameInitRands : world = gameCornerScene(r[1], r[2], r[3], r[4])
    /\ renderer = [NewRenderer EXCEPT !.calls = onRender(world)]
    /\ selected = NullPtr
    /\ playing = FALSE
    /\ score = 1
    /\ keys = [k \in GameKeys |-> TRUE]
    /\ running = TRUE
    /\ crashed = FALSE
    /\ lastOp = "update"
    /\ obs = [NoObs EXCEPT !.player = GamePlayer, !.enemy = GameEnemy,
                           !.target = GameTarget, !.picked = TRUE]
    /\ frames = 0
    /\ issued = <<>>

SpecGamePlay == (InitGame \/ InitGameCorner) /\ [][NextGame]_vars

(***************************************************************************)
(* The frame loops of both programs under fair scheduling: an iteration    *)
(* that has begun runs on to its loop test (no step of it blocks), so the  *)
(* update of the iteration and the exit after a failed loop test are       *)
(* weakly fair.  The editor's widgets other than the Play checkbox stay    *)
(* untouched here.                                                         *)
(***************************************************************************)

\* running = false, by SDL_QUIT (event = "quit") or SDL_WINDOWEVENT_CLOSE
\* (event = "close") in the event pump of the editor's main
EditorQuit(event) ==
    /\ variant = "editor" /\ ~crashed /\ running
    /\ frames < MaxFrames
    /\ running' = FALSE
    /\ lastOp' = event /\ obs' = NoObs
    /\ UNCHANGED <<variant, cfg, world, selected, playing, score, keys, crashed,
                   iterOrder, frames, issued>>
    /\ UNCHANGED <<assetVars, drawVars>>

\* while(running) has failed in the editor's main: core.shutdown(), return 0
\* (which runs ~Editor2 and with it ~TextureManager)
EditorExit ==
    /\ variant = "editor" /\ ~crashed /\ ~running /\ ~InIteration
    /\ lastOp # "exit"
    /\ LET m == clearTextures(Managers(running, texman, fontman, audioman, released))
       IN /\ texman' = m.texman
          /\ released' = m.released
    /\ lastOp' = "exit" /\ obs' = NoObs
    /\ UNCHANGED <<variant, cfg, world, selected, playing, score, keys, running, crashed,
                   iterOrder, frames, issued, files, fontman, audioman, renderer, loads,
                   probe>>

NextEditorLoop ==
    \/ Update
    \/ \E k \in EditorKeys : KeyDown(k)
    \/ \E k \in EditorKeys : KeyUp(k)
    \/ TogglePlay
    \/ \E event \in {"quit", "close"} : EditorQuit(event)
    \/ EditorExit

NextLoop == NextGame \/ NextEditorLoop

\* the update of the iteration in progress, told by what it writes to the
\* frame counter and the loop position: enabled exactly when Update (editor) or
\* GameUpdate (game) is, and taken exactly by the steps of these two actions
FrameStep ==
    /\ ~crashed /\ InIteration /\ frames < MaxFrames
    /\ frames' = frames + 1 /\ lastOp' = "update"

\* the way out after a failed loop test, told in the same way: enabled exactly
\* when EditorExit or GameExit is, and taken exactly by their steps
ExitStep ==
    /\ ~crashed /\ ~running /\ ~InIteration /\ lastOp # "exit"
    /\ frames' = frames /\ lastOp' = "exit"

SpecLoop ==
    /\ InitGame \/ InitEditor
    /\ [][NextLoop]_vars
    /\ WF_<<frames, lastOp>>(FrameStep)
    /\ WF_<<frames, lastOp>>(ExitStep)

-----------------------------------------------------------------------------
(* Properties of the editor, checked under SpecEditor *)

\* the rectangle of a Transform lies inside the world
inBounds(t) == 0 <= t.x /\ 0 <= t.y /\ t.x + t.w <= cfg.width /\ t.y + t.h <= cfg.height

\* C1: after each update step executed while playing, every entity that has a
\* Transform lies inside the world: 0 <= x, 0 <= y, x + w <= width, y + h <= height.
C1_AllInBoundsAfterStep ==
    (lastOp = "update" /\ playing) =>
        \A id \in DOMAIN world.ents :
            has(world.ents[id], "Transform") => inBounds(T(world, id))

\* C2: the selection is none or points to an entity the World holds now.
C2_SelectionInWorld == selected = NullPtr \/ InWorld(selected, world)

\* C2 witness: an entity was selected and then deleted; the store has lost it.
C2_Witness ==
    /\ lastOp = "delete" /\ selected = NullPtr
    /\ Cardinality(DOMAIN world.ents) < world.next - 1

C4_PausedUpdateChangesNothing ==
    [][(lastOp' = "update" /\ ~playing) => (world' = world /\ score' = score)]_vars

\* some entity of the store moves: it has a non-zero velocity
someVelocity ==
    \E id \in DOMAIN world.ents :
        /\ has(world.ents[id], "Velocity")
        /\ get(world.ents[id], "Velocity").vx # 0

\* C4 witness: an update step has run while Paused on a World whose player has a
\* non-zero velocity (set while Playing).
C4_Witness == lastOp = "update" /\ ~playing /\ someVelocity

\* C5: the Play/Pause control flips the playing flag and changes nothing else:
\* the World, the selection and the score are what they were.
C5_ToggleChangesOnlyPlaying ==
    [][lastOp' = "toggle" =>
         (playing' = ~playing /\ world' = world /\ selected' = selected /\ score' = score)]_vars

\* C5 witness: the third toggle (Play, Pause, Play) with an entity selected.
C5_Witness == lastOp = "toggle" /\ playing /\ frames >= 3 /\ selected # NullPtr

\* the demo scene: exactly the three entities spawnDemoScene makes
isDemoScene(w) ==
    /\ DOMAIN w.ents = {1, 2, 3}
    /\ [i \in 1..3 |-> w.ents[1].comps[i].kind] = <<"Transform", "Sprite", "Velocity">>
    /\ T(w, 1) = Transform(1, cfg.width \div 2 - PlayerHalf, cfg.height \div 2 - PlayerHalf,
                           PlayerSize, PlayerSize)
    /\ inBounds(T(w, 1))
    /\ \A i \in {2, 3} :
          /\ Len(w.ents[i].comps) = 2
          /\ has(w.ents[i], "Transform") /\ has(w.ents[i], "Sprite")
          /\ inBounds(T(w, i))
    /\ T(w, 2).w = TargetSize /\ T(w, 2).h = TargetSize
    /\ T(w, 3).w = EnemySize /\ T(w, 3).h = EnemySize

\* C6: after Spawn Demo the World holds exactly the three demo entities, each
\* inside the world, none of them an entity of the previous World; the selection
\* is none and the score is 0.
C6_SpawnBuildsDemoScene ==
    [][lastOp' = "spawn" =>
         /\ isDemoScene(world')
         /\ \A id \in DOMAIN world'.ents : world'.ents[id].gen # world.gen
         /\ selected' = NullPtr
         /\ score' = 0]_vars

\* C6 witness: Spawn Demo has replaced a World that had been played (two update
\* steps at least) and the demo scene is in place.
C6_Witness == lastOp = "spawn" /\ frames >= 2 /\ isDemoScene(world) /\ score = 0

\* C8: when the pickup check of a playing step fires, the score is the score
\* before the check plus 1 and the target's new position is inside
\* [0, width - w] x [0, height - h].
C8_PickupScoresAndRelocatesInBounds ==
    (lastOp = "update" /\ obs.picked) =>
        /\ score = obs.scoreAtPickup + 1
        /\ LET tt == T(world, obs.target)
           IN /\ 0 <= tt.x /\ tt.x <= cfg.width - tt.w
              /\ 0 <= tt.y /\ tt.y <= cfg.height - tt.h

\* C9: when the catch check of a playing step fires, the score is 0 at the end
\* of that step.
C9_CatchLeavesScoreZero == (lastOp = "update" /\ obs.caught) => score = 0

\* the entities of w whose rectangle, edges included, contains the point (px, py)
hitIds(w, px, py) ==
    {id \in DOMAIN w.ents :
        /\ has(w.ents[id], "Transform")
        /\ LET tr == T(w, id)
           IN tr.x <= px /\ px <= tr.x + tr.w /\ tr.y <= py /\ py <= tr.y + tr.h}

\* the place of entity id in the store's iteration order
orderPos(w, id) == CHOOSE i \in 1..Len(IdsInOrder(w)) : IdsInOrder(w)[i] = id

\* C11: a viewport drag received while nothing is selected selects the first
\* entity, in store iteration order, whose rectangle (edges included) contains
\* the pointer's world point, leaves the selection none when no rectangle
\* contains it, and changes no entity.
C11_DragSelectsFirstHit ==
    [][(lastOp' = "drag" /\ selected = NullPtr) =>
         LET H == hitIds(world, obs'.wx, obs'.wy)
         IN /\ world' = world
            /\ IF H = {}
               THEN selected' = NullPtr
               ELSE /\ selected'.id \in H
                    /\ InWorld(selected', world)
                    /\ \A id \in H : orderPos(world, selected'.id) <= orderPos(world, id)]_vars

\* C11 witness: a drag has made a selection where two rectangles contain the
\* pointer (the selected entity was not moved under the pointer).
C11_Witness ==
    /\ lastOp = "drag" /\ selected # NullPtr
    /\ Cardinality(hitIds(world, obs.wx, obs.wy)) >= 2
    /\ T(world, selected.id).x # obs.wx - T(world, selected.id).w \div 2

\* C12: a viewport drag received while an entity is selected puts that entity
\* at (wx - w/2, wy - h/2) and changes nothing else: the selection, every other
\* entity, the size and the other components of the entity, playing and score.
C12_DragMovesSelection ==
    [][(lastOp' = "drag" /\ selected # NullPtr) =>
         LET t == T(world, selected.id)
             moved == [t EXCEPT !.x = obs'.wx - t.w \div 2, !.y = obs'.wy - t.h \div 2]
         IN /\ selected' = selected
            /\ world' = [world EXCEPT !.ents[selected.id] = put(@, "Transform", moved)]
            /\ playing' = playing /\ score' = score]_vars

\* C12 witness: the selected entity has been dragged to a point that lies inside
\* another entity's rectangle, and is still the selection.
C12_Witness ==
    /\ lastOp = "drag" /\ selected # NullPtr
    /\ T(world, selected.id).x = obs.wx - T(world, selected.id).w \div 2
    /\ T(world, selected.id).y = obs.wy - T(world, selected.id).h \div 2
    /\ hitIds(world, obs.wx, obs.wy) \ {selected.id} # {}

\* C13: a selection, once made, changes only by a Hierarchy click, by Delete
\* Selected or by Spawn Demo: update steps, key events, drags, Inspector edits
\* and Play/Pause leave it as it is.
C13_SelectionPersists ==
    [][(selected # NullPtr /\ selected' # selected) =>
         lastOp' \in {"select", "delete", "spawn"}]_vars

\* C13 witness: an entity selected in an earlier frame is still the selection
\* after a simulation step executed while playing.
C13_Witness ==
    /\ lastOp = "update" /\ playing /\ obs.player # INVALID_ENTITY
    /\ selected # NullPtr /\ frames >= 3

\* C14: a key event processed while playing ends normally and writes only the
\* Velocity of an entity that has one: every other entity, and the other
\* components of that entity, are what they were.
C14_KeyWritesOnlyPlayerVelocity ==
    [][lastOp' = "key" =>
         /\ ~crashed'
         /\ \E id \in DOMAIN world.ents :
              /\ has(world.ents[id], "Velocity")
              /\ \E vx, vy \in {-KeySpeed, 0, KeySpeed} :
                   world' = [world EXCEPT !.ents[id] =
                                put(@, "Velocity", Velocity(id, vx, vy))]]_vars

\* C15: an update step executed while playing leaves the position of every
\* entity that has no Velocity where it was.
C15_NoVelocityNoMove ==
    [][(lastOp' = "update" /\ playing /\ ~crashed') =>
         \A id \in DOMAIN world.ents :
             ~has(world.ents[id], "Velocity") =>
                 /\ T(world', id).x = T(world, id).x
                 /\ T(world', id).y = T(world, id).y]_vars

\* C17: the editor never passes the none image handle to the texture-draw
\* call: every RenderCopy the scene's draw issues has a handle that is not none.
C17_NoneHandleNeverDrawn ==
    \A i \in 1..Len(renderer.calls) :
        renderer.calls[i].op = "RenderCopy" => renderer.calls[i].tex # NullTex

-----------------------------------------------------------------------------
(* Properties of the World unit, checked under SpecWorld *)

\* C7: every create returns a non-zero identifier strictly greater than every
\* identifier returned before, on an entity with no components; so the identifier
\* of a destroyed entity is never returned again.
C7_IdentifiersFreshAndIncreasing ==
    /\ \A i \in 1..Len(issued) : issued[i] # INVALID_ENTITY
    /\ \A i, j \in 1..Len(issued) : i < j => issued[i] < issued[j]
    /\ lastOp = "create" =>
          LET id == issued[Len(issued)]
          IN /\ id \in DOMAIN world.ents
             /\ world.ents[id].id = id
             /\ world.ents[id].comps = <<>>

\* C7 witness: a create that follows the destruction of an earlier entity.
C7_Witness ==
    /\ lastOp = "create" /\ Len(issued) >= 3
    /\ \E i \in 1..Len(issued) : issued[i] \notin DOMAIN world.ents

-----------------------------------------------------------------------------
(* Properties of the demo game, checked under SpecGame *)

\* C10: when the catch check of a step fires, the player (64x64) is put at
\* (width/2 - 32, height/2 - 32), its rectangle centred on the world centre, and
\* the enemy, if the step relocated it, lies inside the world.
C10_CatchCentresPlayer ==
    (lastOp = "update" /\ obs.caught) =>
        /\ T(world, obs.player).x = cfg.width \div 2 - PlayerHalf
        /\ T(world, obs.player).y = cfg.height \div 2 - PlayerHalf
        /\ inBounds(T(world, obs.enemy))

\* C18: when the game has run from init to exit (quit event, stop(), ~Engine),
\* every handle the texture, font and audio managers cached has been released
\* exactly once.
C18_EveryHandleReleasedOnce ==
    lastOp = "exit" => \A h \in DOMAIN released : released[h] = 1

-----------------------------------------------------------------------------
(* Properties of the Entity unit, checked under SpecEntity *)

\* C16: after any sequence of addComponent calls an entity holds at most one
\* component of each kind.
C16_AtMostOneOfEachKind ==
    \A id \in DOMAIN world.ents : \A kind \in Kinds :
        Cardinality(KindIdx(world.ents[id], kind)) <= 1

-----------------------------------------------------------------------------
(* Properties of the TextureManager unit, checked under SpecTextures *)

\* C19: a load call for a path that was loaded before returns the handle the
\* first call returned and does not invoke the image decoder.
C19_RepeatedLoadHitsCache ==
    \A i, j \in 1..Len(loads) :
        (i < j /\ loads[i].path = loads[j].path) =>
            (loads[j].tex = loads[i].tex /\ ~loads[j].decoded)

-----------------------------------------------------------------------------
(* Properties of the renderer, checked under SpecRenderer *)

\* C20: after drawSceneToViewport returns, the viewport rectangle and the scale
\* factors of the renderer are what they were before the call.
C20_DrawRestoresTransform ==
    [][lastOp' = "draw" =>
         /\ renderer'.viewport = renderer.viewport
         /\ renderer'.sx = renderer.sx
         /\ renderer'.sy = renderer.sy]_vars

(***************************************************************************)
(* Properties of the frame loops (SpecLoop)                                *)
(***************************************************************************)

\* the loop has been left: main has returned, or the process was ended by an
\* error inside the last iteration
loopLeft == lastOp = "exit" \/ crashed

\* C21: the running flag is cleared by a quit or window-close event and by
\* nothing else; once it is cleared the iteration in progress still runs its
\* update, no further iteration begins (no event is pumped and no update runs
\* after that update), and the loop is eventually left.
C21_LoopExitsAfterQuit ==
    /\ [][(running /\ ~running') => lastOp' \in {"quit", "close"}]_vars
    /\ [][(~running /\ lastOp \notin {"quit", "close", "key"})
              => lastOp' \notin {"update", "key", "quit", "close"}]_vars
    /\ [][~running => ~running']_vars
    /\ (~running ~> loopLeft)

\* main has returned after a quit event that was followed by a whole iteration
C21_Witness == lastOp = "exit" /\ ~running /\ ~crashed /\ frames >= 2

(***************************************************************************)
(* Properties of the Viewport panel (SpecViewport)                         *)
(***************************************************************************)

C25_ScreenWorldRoundTrip == probe.op = "panel" => probe.world = probe.point

\* a point away from the origin, in a panel that is offset and scaled down
C25_Witness ==
    /\ probe.op = "panel" /\ probe.point = <<1248, 696>>
    /\ probe.view = [x |-> 320, y |-> 180, w |-> 640, h |-> 360]
    /\ probe.mouse = <<944, 528>>

(***************************************************************************)
(* Properties of aabbIntersect and of the chase step (SpecGeometry)        *)
(***************************************************************************)

\* the edges of a rectangle as the code forms them
left(r) == r.x
right(r) == r.x + r.w
top(r) == r.y
bottom(r) == r.y + r.h

\* C23: aabbIntersect gives the same answer for (a, b) and (b, a), and answers
\* true for (a, a) when a has non-negative width and height.
C23_AabbSymmetricReflexive ==
    probe.op = "aabb" =>
        /\ probe.ab = probe.ba
        /\ (probe.a.w >= 0 /\ probe.a.h >= 0) => probe.aa

\* two different rectangles that intersect in both orders, the first of them
\* without area
C23_Witness ==
    /\ probe.op = "aabb" /\ probe.a # probe.b
    /\ probe.a.w = 0 /\ probe.a.h = 0
    /\ probe.ab /\ probe.ba /\ probe.aa

\* C24: aabbIntersect(a, b) is the negation of "a.right < b.left or a.left >
\* b.right or a.bottom < b.top or a.top > b.bottom"; rectangles of non-negative
\* size that only touch along an edge or at a corner intersect.
C24_AabbSeparationTest ==
    probe.op = "aabb" =>
        LET a == probe.a
            b == probe.b
        IN /\ probe.ab = ~(\/ right(a) < left(b) \/ left(a) > right(b)
                           \/ bottom(a) < top(b) \/ top(a) > bottom(b))
           /\ ( /\ a.w >= 0 /\ a.h >= 0 /\ b.w >= 0 /\ b.h >= 0
                /\ right(a) = left(b)
                /\ top(a) <= bottom(b) /\ top(b) <= bottom(a) ) => probe.ab

\* two squares that share one corner point only
C24_Witness ==
    /\ probe.op = "aabb"
    /\ probe.a = [x |-> 0, y |-> 0, w |-> 2, h |-> 2]
    /\ probe.b = [x |-> 2, y |-> 2, w |-> 2, h |-> 2]
    /\ probe.ab

\* s is c * speed / dist rounded toward zero (speed = num/den, c one component
\* of the vector to the player, dist its length)
isStep(s, c, dist, num, den) ==
    /\ s * c >= 0
    /\ Abs(s) * den * dist <= num * Abs(c)
    /\ num * Abs(c) < (Abs(s) + 1) * den * dist

\* C26: when the centres of player and enemy coincide the chase leaves the
\* enemy where it is; otherwise the enemy is displaced by the chase speed
\* along the unit vector to the player (each component held to the whole
\* pixel), however near the player is.
C26_ChaseStepOrStay ==
    probe.op = "chase" =>
        LET pt == probe.pt
            et == probe.et
            dx == (2 * pt.x + pt.w) - (2 * et.x + et.w)
            dy == (2 * pt.y + pt.h) - (2 * et.y + et.h)
            dist == ISqrt(dx * dx + dy * dy)
        IN /\ dist * dist = dx * dx + dy * dy
           /\ probe.after.w = et.w /\ probe.after.h = et.h
           /\ IF dx = 0 /\ dy = 0
              THEN probe.after = et
              ELSE /\ isStep(probe.after.x - et.x, dx, dist, probe.num, probe.den)
                   /\ isStep(probe.after.y - et.y, dy, dist, probe.num, probe.den)

\* the enemy one pixel from the player is displaced by the whole step of the
\* editor (100 px), past the player
C26_Witness ==
    /\ probe.op = "chase" /\ probe.num = ChaseSpeed * 1000 /\ probe.den = 1000
    /\ probe.et.x + probe.et.w \div 2 = probe.pt.x + probe.pt.w \div 2 - 1
    /\ probe.after.x = probe.et.x + ChaseSpeed
    /\ probe.after.y = probe.et.y

(***************************************************************************)
(* Properties of World::destroyEntity (SpecWorld)                          *)
(***************************************************************************)

\* w2 is w1 without the entity id: every other entity as it was, the counter
\* of identifiers as it was
removedOnly(w1, w2, id) ==
    /\ DOMAIN w2.ents = DOMAIN w1.ents \ {id}
    /\ \A i \in DOMAIN w2.ents : w2.ents[i] = w1.ents[i]
    /\ w2.next = w1.next /\ w2.gen = w1.gen

\* C27: destroyEntity(id) removes the entity id and nothing else; for an id
\* that is not in the World (never created, or destroyed before) it changes
\* nothing, so a second destroyEntity(id) has no effect.  Stated of the call on
\* every World that creates and destroys can build, and of every destroy step.
C27_DestroyRemovesOnlyThat ==
    /\ [](\A id \in DestroyIds :
            LET w1 == destroyEntity(world, id)
            IN /\ removedOnly(world, w1, id)
               /\ id \notin DOMAIN world.ents => w1 = world
               /\ destroyEntity(w1, id) = w1)
    /\ [][lastOp' = "destroy" => \E id \in DestroyIds : removedOnly(world, world', id)]_vars

\* a destroy has run in a World that still holds two entities and has lost
\* one before: the next destroy can hit a live, a destroyed or an unused id
C27_Witness ==
    /\ lastOp = "destroy"
    /\ Cardinality(DOMAIN world.ents) >= 2
    /\ \E i \in 1..Len(issued) : issued[i] \notin DOMAIN world.ents
    /\ \E id \in DestroyIds : id >= world.next

(***************************************************************************)
(* Properties of the demo game in play (SpecGamePlay)                      *)
(***************************************************************************)

\* C28: in the demo game the player, the target and the enemy lie inside the
\* window in every state: 0 <= x, 0 <= y, x + w <= width, y + h <= height,
\* after steps that clamp, chase, pick up or reset alike.
C28_GameEntitiesInBounds ==
    variant = "game" =>
        \A id \in {GamePlayer, GameTarget, GameEnemy} : inBounds(T(world, id))

\* the player held in the corner by the clamp while the enemy has been moved
\* by the chase for two steps and more
C28_Witness ==
    /\ variant = "game" /\ lastOp = "update" /\ ~crashed /\ frames >= 2
    /\ T(world, GamePlayer).x = cfg.width - PlayerSize
    /\ T(world, GamePlayer).y = cfg.height - PlayerSize
    /\ get(world.ents[GamePlayer], "Velocity").vx = GameSpeed
    /\ ~obs.picked /\ ~obs.caught

\* C29: the update step of the demo game completes without error for every
\* key-state table the event pump can have built, the empty table of the
\* first frame included (a key without an event counts as not pressed).
C29_UpdateCompletes == (variant = "game" /\ lastOp = "update") => ~crashed

(***************************************************************************)
(* Properties of the roles in the editor's playing step (SpecEditor)       *)
(***************************************************************************)

\* the entity of a set that the store's iteration reaches last, 0 for none
lastInOrder(w, C) ==
    IF C = {} THEN INVALID_ENTITY
    ELSE CHOOSE id \in C : \A o \in C : orderPos(w, o) <= orderPos(w, id)

\* C30: a playing step takes the roles from the widths the entities have in
\* that step: among the entities with a Sprite the player is one wider than
\* 48, the enemy one wider than 40 and at most 48, the target one of width at
\* most 40; of several entities of a class the one iterated last has the role,
\* and a class without entity leaves its role empty.
C30_RolesFromWidths ==
    (variant = "editor" /\ lastOp = "update" /\ playing) =>
        LET S == {id \in DOMAIN world.ents : has(world.ents[id], "Sprite")}
            wide  == {id \in S : T(world, id).w > PlayerMinW}
            mid   == {id \in S : T(world, id).w > EnemyMinW /\ T(world, id).w <= PlayerMinW}
            small == {id \in S : T(world, id).w <= EnemyMinW}
        IN /\ obs.player = lastInOrder(world, wide)
           /\ obs.enemy = lastInOrder(world, mid)
           /\ obs.target = lastInOrder(world, small)

\* the demo player, resized to 44 in the Inspector, is the enemy of the next
\* playing step although the demo enemy is still there, and nobody is player
C30_Witness ==
    /\ variant = "editor" /\ lastOp = "update" /\ playing
    /\ 1 \in DOMAIN world.ents /\ 3 \in DOMAIN world.ents
    /\ T(world, 1).w = 44 /\ T(world, 3).w = EnemySize
    /\ obs.enemy = 1 /\ obs.player = INVALID_ENTITY

(***************************************************************************)
(* Properties of the editor's score (SpecEditor)                           *)
(***************************************************************************)

\* C31: in the editor the score is never negative, and it is written only by
\* an update step taken while playing (set to 0 by a catch, then raised by 1
\* by a pickup, in that order when both happen in one step) and by Spawn Demo
\* (set to 0); a paused update, a key event, a drag, an Inspector edit, a
\* Hierarchy operation and the Play/Pause toggle leave it as it is.
C31_ScoreWrittenOnlyByPlayAndSpawn ==
    /\ [](variant = "editor" => score >= 0)
    /\ [][variant = "editor" =>
            IF lastOp' = "update" /\ playing
            THEN score' = (IF obs'.caught THEN 0 ELSE score) + (IF obs'.picked THEN 1 ELSE 0)
            ELSE IF lastOp' = "spawn" THEN score' = 0
            ELSE score' = score]_vars

\* a drag made after a pickup has scored: the score is still there
C31_Witness ==
    /\ variant = "editor" /\ lastOp = "drag" /\ score >= 1 /\ playing

====
